---- MODULE Spec2Model ----
(***************************************************************************)
(* Model of scripts/seed_cache.py: the cache seeding script of ctod.       *)
(*                                                                         *)
(* One process is one call of run(): it starts the tile service, waits,    *)
(* starts seed_cache as a task and polls done_future.  seed_cache walks    *)
(* the zoom levels; generate_level dispatches generate_tile tasks in       *)
(* batches of request_count and gathers them; generate_tile probes the     *)
(* cache, requests the tile over HTTP and saves a 200 answer.  The tile    *)
(* cache on disk outlives the process, so a second process of the same job *)
(* finds what the first one stored.                                        *)
(*                                                                         *)
(* Spec is one process; RerunSpec runs the job a second time on the store  *)
(* the first process left; LifeSpec adds the fatal errors of seed_cache    *)
(* and the KeyboardInterrupt handler of run(); GridSpec is                 *)
(* generate_z_order_grid on its own.                                       *)
(***************************************************************************)
EXTENDS Integers, Sequences, FiniteSets, TLC

\* ---------------------------------------------------------------- bounds
MaxZoom == 1      \* zoom levels of a job are drawn from 0..MaxZoom
MaxTiles == 3     \* a job covers at most this many tiles, summed over its zoom list
MaxWidth == 2     \* request_count is drawn from 1..MaxWidth
MaxCoord == 3     \* GridSpec draws the x and y ranges from 0..MaxCoord

\* ------------------------------------------------------- program constants
BitWidth == 32    \* for i in range(32)
ReportEvery == 100    \* if generated_tiles % 100 == 0

VARIABLES
    \* the job: the command line of run() and the layer descriptor it resolves
    overwrite, request_count, zoom_levels, layer_json,
    \* run(): the lifecycle of one process
    run, ctl, server_state, should_exit, done_future, stop_requested,
    \* seed_cache(): the task and its loop over zoom_levels
    seed_pc, zi,
    \* generate_level(): its locals
    lvl_pc, x_range, y_range, morton_order, pos, tasks, generated_tiles,
    \* the tile cache on disk: the keys <<z, x, row>> that hold a tile
    store,
    \* history of this process: HTTP requests issued, tiles saved, outcomes
    requested, saved, log,
    \* history of the process before this one
    prev

job == <<overwrite, request_count, zoom_levels, layer_json>>
proc == <<run, ctl, server_state, should_exit, done_future, stop_requested>>
seed == <<seed_pc, zi>>
level == <<lvl_pc, x_range, y_range, morton_order, pos, tasks, generated_tiles>>
hist == <<requested, saved, log>>
vars == <<job, proc, seed, level, store, hist, prev>>

\* ------------------------------------------------------------ pure helpers

\* Range that does not count up
RangeStuck(lo, hi) == [i \in 1..(IF hi >= lo THEN hi - lo + 1 ELSE 0) |-> lo]

\* range(lo, hi + 1) as a sequence
Range(lo, hi) == [i \in 1..(IF hi >= lo THEN hi - lo + 1 ELSE 0) |-> lo + i - 1]

\* tms.minmax(zoom)["y"]["max"]: the last row of the tile matrix of a zoom level,
\* which has 2^zoom rows and twice as many columns
TmsYMax(z) == 2^z - 1
TmsXMax(z) == 2^(z + 1) - 1

\* get_tile_range: the rectangle the layer descriptor lists for a zoom level
get_tile_range(lj, z) == <<lj[z].startX, lj[z].endX, lj[z].startY, lj[z].endY>>

\* interleave_bits, from bit i up.  Iterations in which both x and y have no bit
\* at or above i change nothing and are cut off.
RECURSIVE InterleaveFrom(_, _, _)
InterleaveFrom(x, y, i) ==
    IF i >= BitWidth \/ ((x \div 2^i) = 0 /\ (y \div 2^i) = 0) THEN 0
    ELSE ((x \div 2^i) % 2) * 2^(2*i) + ((y \div 2^i) % 2) * 2^(2*i + 1)
         + InterleaveFrom(x, y, i + 1)

interleave_bits(x, y) == InterleaveFrom(x, y, 0)

\* SortKey with x and y handed over in the wrong order
SortKeySwapped(point) == interleave_bits(point[2], point[1])

\* the sort key of grid.sort
SortKey(point) == interleave_bits(point[1], point[2])

\* list.sort(key=...) is stable: a point goes behind the points with an equal key
RECURSIVE InsertByKey(_, _)
InsertByKey(s, p) ==
    IF s = <<>> THEN <<p>>
    ELSE IF SortKey(Head(s)) <= SortKey(p) THEN <<Head(s)>> \o InsertByKey(Tail(s), p)
    ELSE <<p>> \o s

RECURSIVE SortGrid(_)
SortGrid(g) ==
    IF g = <<>> THEN <<>>
    ELSE InsertByKey(SortGrid(SubSeq(g, 1, Len(g) - 1)), g[Len(g)])

\* GridOf with the two lengths mixed up in the index arithmetic
GridOfSkewed(xr, yr) ==
    [k \in 1..(Len(xr) * Len(yr)) |->
        <<xr[((k - 1) % Len(xr)) + 1], yr[((k - 1) % Len(yr)) + 1]>>]

\* [(x, y) for x in x_range for y in y_range]
GridOf(xr, yr) ==
    [k \in 1..(Len(xr) * Len(yr)) |->
        <<xr[((k - 1) \div Len(yr)) + 1], yr[((k - 1) % Len(yr)) + 1]>>]

generate_z_order_grid(xr, yr) == SortGrid(GridOf(xr, yr))

\* the key get_tile_from_disk is asked for: the row as requested
ProbeKey(z, x, y) == <<z, x, y>>

\* SaveKey without the row conversion
SaveKeyUnflipped(tms_y_max, z, x, y) == <<z, x, y>>

\* the key save_tile_to_disk is given: y = tms_y_max - y
SaveKey(tms_y_max, z, x, y) == <<z, x, tms_y_max - y>>

\* the tile cache: get_tile_from_disk finds a tile under a key or not, and
\* save_tile_to_disk puts one under a key
get_tile_from_disk(st, key) == key \in st
save_tile_to_disk(st, key) == st \cup {key}

\* BatchFull with > for >=
BatchFullLate(n, k) == n > k

\* len(tasks) >= request_count
BatchFull(n, k) == n >= k

\* ------------------------------------------------------------------- jobs

\* the rectangles a layer descriptor may list for a zoom level: columns from 0
\* on, rows from the first row on or up to the last row of the tile matrix
RectsAt(z) ==
    {r \in [startX : {0}, endX : 0..TmsXMax(z),
            startY : 0..TmsYMax(z), endY : 0..TmsYMax(z)] :
        /\ r.startY <= r.endY
        /\ (r.startY = 0 \/ r.endY = TmsYMax(z))
        /\ (r.endX + 1) * (r.endY - r.startY + 1) <= MaxTiles}

RectTiles(r) == (r.endX - r.startX + 1) * (r.endY - r.startY + 1)

\* the zoom lists of a job: one zoom level, or two (the same one twice among them)
ZoomLists == {<<a>> : a \in 0..MaxZoom} \cup {<<a, b>> : a, b \in 0..MaxZoom}

RECURSIVE JobTiles(_, _)
JobTiles(zl, lj) ==
    IF zl = <<>> THEN 0
    ELSE (IF Head(zl) \in DOMAIN lj THEN RectTiles(lj[Head(zl)]) ELSE 0)
         + JobTiles(Tail(zl), lj)

UnitRect == [startX |-> 0, endX |-> 0, startY |-> 0, endY |-> 0]

InZoomList(zl, z) == \E i \in 1..Len(zl) : zl[i] = z

\* the layer descriptors of a zoom list, zoom by zoom up to z: a rectangle for
\* every zoom level the job lists (the others are never looked up)
RECURSIVE LayersUpTo(_, _)
LayersUpTo(zl, z) ==
    LET rects == IF InZoomList(zl, z) THEN RectsAt(z) ELSE {UnitRect}
    IN IF z = 0 THEN {[i \in {0} |-> r] : r \in rects}
       ELSE {[i \in 0..z |-> IF i = z THEN r ELSE f[i]] :
                f \in LayersUpTo(zl, z - 1), r \in rects}

\* ------------------------------------------------------------------- Init

\* what a process leaves behind: the tiles it saved, the tiles whose fetch failed
\* and that it did not save, the store at its end, and whether it ran to its end
\* unstopped with every tile skipped or saved
NoRun == [cached |-> {}, failed |-> {}, store |-> {}, clean |-> FALSE]

Summary ==
    LET cached == {s.tile : s \in saved}
    IN [cached |-> cached,
        failed |-> {l.tile : l \in {m \in log : m.out \notin {"Skipped", "Cached"}}}
                   \ cached,
        store |-> store,
        clean |-> /\ ~stop_requested
                  /\ \A l \in log : l.out \in {"Skipped", "Cached"}]

JobInit ==
    /\ overwrite \in BOOLEAN
    /\ request_count \in 1..MaxWidth
    /\ zoom_levels \in ZoomLists
    /\ layer_json \in LayersUpTo(zoom_levels, MaxZoom)
    /\ JobTiles(zoom_levels, layer_json) <= MaxTiles

ProcInit ==
    /\ ctl = "Starting"
    /\ server_state = "off"
    /\ should_exit = FALSE
    /\ done_future = 0
    /\ stop_requested = FALSE
    /\ seed_pc = "none"
    /\ zi = 1
    /\ lvl_pc = "none"
    /\ x_range = <<>>
    /\ y_range = <<>>
    /\ morton_order = <<>>
    /\ pos = 1
    /\ tasks = <<>>
    /\ generated_tiles = 0
    /\ requested = {}
    /\ saved = {}
    /\ log = {}

Init ==
    /\ JobInit
    /\ ProcInit
    /\ run = 1
    /\ store = {}
    /\ prev = NoRun

\* ------------------------------------------------------------------ run()

\* loop.create_task(server.serve())
StartServer ==
    /\ ctl = "Starting"
    /\ ctl' = "Warming"
    /\ server_state' = "serving"
    /\ UNCHANGED <<job, run, should_exit, done_future, stop_requested,
                   seed, level, store, hist, prev>>

\* await asyncio.sleep(2); done_future = Future(); asyncio.create_task(seed_cache(...))
StartSeeding ==
    /\ ctl = "Warming"
    /\ ctl' = "Seeding"
    /\ seed_pc' = "created"
    /\ UNCHANGED <<job, run, server_state, should_exit, done_future, stop_requested,
                   zi, level, store, hist, prev>>

\* AwaitDone that does not poll done_future
AwaitDoneUnpolled ==
    /\ ctl = "Seeding"
    /\ ctl' = "Draining"
    /\ should_exit' = TRUE
    /\ UNCHANGED <<job, run, server_state, done_future, stop_requested,
                   seed, level, store, hist, prev>>

\* while not done_future.done(): sleep(0.1); then server.should_exit = True
AwaitDone ==
    /\ ctl = "Seeding"
    /\ done_future > 0
    /\ ctl' = "Draining"
    /\ should_exit' = TRUE
    /\ UNCHANGED <<job, run, server_state, done_future, stop_requested,
                   seed, level, store, hist, prev>>

\* server.serve() returns once should_exit is set
ServerExit ==
    /\ server_state = "serving"
    /\ should_exit
    /\ server_state' = "exited"
    /\ UNCHANGED <<job, run, ctl, should_exit, done_future, stop_requested,
                   seed, level, store, hist, prev>>

\* await server_task; await clear_tasks(); loop.stop()
Drain ==
    /\ ctl = "Draining"
    /\ server_state = "exited"
    /\ ctl' = "Stopped"
    /\ UNCHANGED <<job, run, server_state, should_exit, done_future, stop_requested,
                   seed, level, store, hist, prev>>

\* the service's own signal handler sets should_exit while it is serving
StopSignal ==
    /\ server_state = "serving"
    /\ ~should_exit
    /\ should_exit' = TRUE
    /\ stop_requested' = TRUE
    /\ UNCHANGED <<job, run, ctl, server_state, done_future,
                   seed, level, store, hist, prev>>

\* the first process has ended; the same job is started once more on the same
\* cache folder
NewRun ==
    /\ ctl = "Stopped"
    /\ run = 1
    /\ run' = run + 1
    /\ prev' = Summary
    /\ ctl' = "Starting"
    /\ server_state' = "off"
    /\ should_exit' = FALSE
    /\ done_future' = 0
    /\ stop_requested' = FALSE
    /\ seed_pc' = "none"
    /\ zi' = 1
    /\ lvl_pc' = "none"
    /\ x_range' = <<>>
    /\ y_range' = <<>>
    /\ morton_order' = <<>>
    /\ pos' = 1
    /\ tasks' = <<>>
    /\ generated_tiles' = 0
    /\ requested' = {}
    /\ saved' = {}
    /\ log' = {}
    /\ UNCHANGED <<job, store>>

\* ----------------------------------------------------------- seed_cache()

\* create_cache_folder(output_filepath); layer_json = get_layer_json(...)
SeedStart ==
    /\ seed_pc = "created"
    /\ seed_pc' = "loop"
    /\ UNCHANGED <<job, proc, zi, level, store, hist, prev>>

\* for zoom in zoom_levels: not should_exit: await generate_level(...), up to
\* its "tasks = []"
LevelEnter ==
    /\ seed_pc = "loop"
    /\ zi <= Len(zoom_levels)
    /\ ~should_exit
    /\ zoom_levels[zi] \in DOMAIN layer_json
    /\ LET tile_range == get_tile_range(layer_json, zoom_levels[zi])
           xr == Range(tile_range[1], tile_range[2])
           yr == Range(tile_range[3], tile_range[4])
       IN /\ x_range' = xr
          /\ y_range' = yr
          /\ morton_order' = generate_z_order_grid(xr, yr)
    /\ pos' = 1
    /\ tasks' = <<>>
    /\ generated_tiles' = 0
    /\ lvl_pc' = "loop"
    /\ seed_pc' = "level"
    /\ UNCHANGED <<job, proc, zi, store, hist, prev>>

\* the loop over zoom_levels is exhausted or left by break: done_future.set_result(None)
SeedFinish ==
    /\ seed_pc = "loop"
    /\ (zi > Len(zoom_levels) \/ should_exit)
    /\ done_future' = done_future + 1
    /\ seed_pc' = "returned"
    /\ UNCHANGED <<job, run, ctl, server_state, should_exit, stop_requested,
                   zi, level, store, hist, prev>>

\* ------------------------------------------------------- generate_level()

\* the zoom level generate_level works on, and its tms_y_max
zoom == zoom_levels[zi]
tms_y_max == TmsYMax(zoom)

\* NewTask with the overwrite flag ignored
NewTaskProbing(x, y) == [x |-> x, y |-> y, pc |-> "probe", out |-> "none"]

\* asyncio.create_task(generate_tile(...)): the task runs once its creator awaits;
\* "if not overwrite" sends it to the probe or past it
NewTask(x, y) == [x |-> x, y |-> y, pc |-> IF overwrite THEN "fetch" ELSE "probe",
                  out |-> "none"]

AllDone(ts) == \A i \in 1..Len(ts) : ts[i].pc = "done"
SomeRaised(ts) == \E i \in 1..Len(ts) : ts[i].out = "Raised"

\* one turn of "for x, y in morton_order" up to the await, or to its end when
\* the batch is not full
Dispatch ==
    /\ lvl_pc = "loop"
    /\ pos <= Len(morton_order)
    /\ ~should_exit
    /\ tasks' = Append(tasks, NewTask(morton_order[pos][1], morton_order[pos][2]))
    /\ pos' = pos + 1
    /\ IF BatchFull(Len(tasks) + 1, request_count)
       THEN lvl_pc' = "gather" /\ UNCHANGED generated_tiles
       ELSE lvl_pc' = "loop" /\ generated_tiles' = generated_tiles + 1
    /\ UNCHANGED <<job, proc, seed, x_range, y_range, morton_order, store, hist, prev>>

\* GatherReturn that returns with the first task of the batch
GatherReturnEarly ==
    /\ lvl_pc = "gather"
    /\ tasks[1].pc = "done"
    /\ ~SomeRaised(tasks)
    /\ tasks' = <<>>
    /\ generated_tiles' = generated_tiles + 1
    /\ lvl_pc' = "loop"
    /\ UNCHANGED <<job, proc, seed, x_range, y_range, morton_order, pos, store, hist, prev>>

\* await asyncio.gather(*tasks) returns; tasks = []; generated_tiles += 1
GatherReturn ==
    /\ lvl_pc = "gather"
    /\ AllDone(tasks)
    /\ ~SomeRaised(tasks)
    /\ tasks' = <<>>
    /\ generated_tiles' = generated_tiles + 1
    /\ lvl_pc' = "loop"
    /\ UNCHANGED <<job, proc, seed, x_range, y_range, morton_order, pos, store, hist, prev>>

\* generate_level returns to the loop of seed_cache
LevelReturn ==
    /\ lvl_pc' = "none"
    /\ tasks' = <<>>
    /\ seed_pc' = "loop"
    /\ zi' = zi + 1
    /\ UNCHANGED <<job, proc, x_range, y_range, morton_order, pos, generated_tiles,
                   store, hist, prev>>

\* LoopExit without the gather of the last, partial batch
LoopExitNoGather ==
    /\ lvl_pc = "loop"
    /\ (pos > Len(morton_order) \/ should_exit)
    /\ LevelReturn

\* the loop over morton_order is exhausted or left by break: "if tasks:"
LoopExit ==
    /\ lvl_pc = "loop"
    /\ (pos > Len(morton_order) \/ should_exit)
    /\ IF tasks # <<>>
       THEN /\ lvl_pc' = "final_gather"
            /\ UNCHANGED <<job, proc, seed, x_range, y_range, morton_order, pos, tasks,
                           generated_tiles, store, hist, prev>>
       ELSE LevelReturn

\* the gather after the loop returns
FinalGatherReturn ==
    /\ lvl_pc = "final_gather"
    /\ AllDone(tasks)
    /\ ~SomeRaised(tasks)
    /\ LevelReturn

\* GatherRaise with done_future set on the way out
GatherRaiseSignalled ==
    /\ lvl_pc \in {"gather", "final_gather"}
    /\ SomeRaised(tasks)
    /\ lvl_pc' = "raised"
    /\ seed_pc' = "raised"
    /\ done_future' = done_future + 1
    /\ UNCHANGED <<job, run, ctl, server_state, should_exit, stop_requested, zi,
                   x_range, y_range, morton_order, pos, tasks, generated_tiles,
                   store, hist, prev>>

\* a gathered task ended with an exception: gather raises it, and nothing up to
\* the task of seed_cache catches it
GatherRaise ==
    /\ lvl_pc \in {"gather", "final_gather"}
    /\ SomeRaised(tasks)
    /\ lvl_pc' = "raised"
    /\ seed_pc' = "raised"
    /\ UNCHANGED <<job, proc, zi, x_range, y_range, morton_order, pos, tasks,
                   generated_tiles, store, hist, prev>>

\* -------------------------------------------------------- generate_tile()

\* the tasks run while generate_level awaits them, and after its task has died
TasksRun == lvl_pc \in {"gather", "final_gather", "raised"}

Tile(t) == <<zoom, t.x, t.y>>

Finish(i, outcome) ==
    /\ tasks' = [tasks EXCEPT ![i].pc = "done", ![i].out = outcome]
    /\ log' = log \cup {[tile |-> Tile(tasks[i]), out |-> outcome]}

\* if not overwrite: cached_tile = await get_tile_from_disk(..., z, x, y)
Probe(i) ==
    /\ TasksRun
    /\ tasks[i].pc = "probe"
    /\ IF get_tile_from_disk(store, ProbeKey(zoom, tasks[i].x, tasks[i].y))
       THEN Finish(i, "Skipped")
       ELSE tasks' = [tasks EXCEPT ![i].pc = "fetch"] /\ UNCHANGED log
    /\ UNCHANGED <<job, proc, seed, lvl_pc, x_range, y_range, morton_order, pos,
                   generated_tiles, store, requested, saved, prev>>

\* session.get(tile_url, headers=headers): the request leaves
SendRequest(i) ==
    /\ TasksRun
    /\ tasks[i].pc = "fetch"
    /\ tasks' = [tasks EXCEPT ![i].pc = "inflight"]
    /\ requested' = requested \cup {Tile(tasks[i])}
    /\ UNCHANGED <<job, proc, seed, lvl_pc, x_range, y_range, morton_order, pos,
                   generated_tiles, store, saved, log, prev>>

\* response.status == 200
Respond200(i) ==
    /\ TasksRun
    /\ tasks[i].pc = "inflight"
    /\ tasks' = [tasks EXCEPT ![i].pc = "read"]
    /\ UNCHANGED <<job, proc, seed, lvl_pc, x_range, y_range, morton_order, pos,
                   generated_tiles, store, hist, prev>>

\* RespondStatus that stores the body of the error answer
RespondStatusSaved(i) ==
    /\ TasksRun
    /\ tasks[i].pc = "inflight"
    /\ store' = save_tile_to_disk(store, SaveKey(TmsYMax(zoom_levels[zi]),
                                                 zoom_levels[zi], tasks[i].x, tasks[i].y))
    /\ Finish(i, "FailedStatus")
    /\ UNCHANGED <<job, proc, seed, lvl_pc, x_range, y_range, morton_order, pos,
                   generated_tiles, requested, saved, prev>>

\* any other status: logging.error(...)
RespondStatus(i) ==
    /\ TasksRun
    /\ tasks[i].pc = "inflight"
    /\ Finish(i, "FailedStatus")
    /\ UNCHANGED <<job, proc, seed, lvl_pc, x_range, y_range, morton_order, pos,
                   generated_tiles, store, requested, saved, prev>>

\* session.get raises (connection refused, reset): the "async with" stands
\* outside the try, so the exception leaves generate_tile
ConnectError(i) ==
    /\ TasksRun
    /\ tasks[i].pc = "inflight"
    /\ Finish(i, "Raised")
    /\ UNCHANGED <<job, proc, seed, lvl_pc, x_range, y_range, morton_order, pos,
                   generated_tiles, store, requested, saved, prev>>

\* tile_data = await response.read()
ReadBody(i) ==
    /\ TasksRun
    /\ tasks[i].pc = "read"
    /\ tasks' = [tasks EXCEPT ![i].pc = "save"]
    /\ UNCHANGED <<job, proc, seed, lvl_pc, x_range, y_range, morton_order, pos,
                   generated_tiles, store, hist, prev>>

\* response.read() or save_tile_to_disk raises: except Exception: logging.error(...)
CaughtError(i) ==
    /\ TasksRun
    /\ tasks[i].pc \in {"read", "save"}
    /\ Finish(i, "FailedError")
    /\ UNCHANGED <<job, proc, seed, lvl_pc, x_range, y_range, morton_order, pos,
                   generated_tiles, store, requested, saved, prev>>

\* y = tms_y_max - y; await save_tile_to_disk(..., z, x, y, tile_data)
SaveTile(i) ==
    /\ TasksRun
    /\ tasks[i].pc = "save"
    /\ LET key == SaveKey(tms_y_max, zoom, tasks[i].x, tasks[i].y)
       IN /\ store' = save_tile_to_disk(store, key)
          /\ saved' = saved \cup {[tile |-> Tile(tasks[i]), key |-> key]}
    /\ Finish(i, "Cached")
    /\ UNCHANGED <<job, proc, seed, lvl_pc, x_range, y_range, morton_order, pos,
                   generated_tiles, requested, prev>>

TileStep ==
    \E i \in 1..Len(tasks) :
        \/ Probe(i)
        \/ SendRequest(i)
        \/ Respond200(i)
        \/ RespondStatus(i)
        \/ ConnectError(i)
        \/ ReadBody(i)
        \/ CaughtError(i)
        \/ SaveTile(i)

\* ------------------------------------------------------------------- Spec

Next ==
    \/ StartServer
    \/ StartSeeding
    \/ AwaitDone
    \/ ServerExit
    \/ Drain
    \/ StopSignal
    \/ SeedStart
    \/ LevelEnter
    \/ SeedFinish
    \/ Dispatch
    \/ GatherReturn
    \/ LoopExit
    \/ FinalGatherReturn
    \/ GatherRaise
    \/ TileStep

Spec == Init /\ [][Next]_vars

\* the job run twice: the second process finds the store the first one left
RerunNext ==
    \/ Next
    \/ NewRun

RerunSpec == Init /\ [][RerunNext]_vars

\* --------------------------------------------------------------- LifeSpec
\* The process with what ends it early: the fatal errors of seed_cache, and a
\* KeyboardInterrupt that reaches run().

\* the layer descriptors that lack a zoom level the job lists: "available"
\* ends below it
ShortLayers(zl) ==
    UNION {LayersUpTo(zl, m) :
              m \in {n \in 0..(MaxZoom - 1) : \E i \in 1..Len(zl) : zl[i] > n}}

\* the jobs of LifeSpec are one tile smaller than those of Spec: interrupts and
\* cancellations come on top of every state of a job
LifeTiles == MaxTiles - 1

LifeInit ==
    /\ overwrite \in BOOLEAN
    /\ request_count \in 1..MaxWidth
    /\ zoom_levels \in ZoomLists
    /\ layer_json \in LayersUpTo(zoom_levels, MaxZoom) \cup ShortLayers(zoom_levels)
    /\ JobTiles(zoom_levels, layer_json) <= LifeTiles
    /\ ProcInit
    /\ run = 1
    /\ store = {}
    /\ prev = NoRun

\* create_cache_folder: os.makedirs raises; logging.error(...); sys.exit(1).
\* SystemExit leaves the task of seed_cache and the event loop with it: every
\* task is cancelled where it stands, run() where it polls, and the process
\* exits with status 1
CacheFolderFail ==
    /\ seed_pc = "created"
    /\ seed_pc' = "exit"
    /\ server_state' = IF server_state = "serving" THEN "killed" ELSE server_state
    /\ UNCHANGED <<job, run, ctl, should_exit, done_future, stop_requested,
                   zi, level, store, hist, prev>>

\* get_layer_json raises: nothing in seed_cache catches it, its task ends with
\* the exception, and run() never looks at the task
DescriptorFail ==
    /\ seed_pc = "created"
    /\ seed_pc' = "fatal"
    /\ UNCHANGED <<job, proc, zi, level, store, hist, prev>>

\* get_tile_range: available[zoom] of a zoom level the descriptor does not list
\* raises IndexError, which leaves generate_level and seed_cache
MissingZoom ==
    /\ seed_pc = "loop"
    /\ zi <= Len(zoom_levels)
    /\ ~should_exit
    /\ zoom_levels[zi] \notin DOMAIN layer_json
    /\ seed_pc' = "fatal"
    /\ UNCHANGED <<job, proc, zi, level, store, hist, prev>>

\* except KeyboardInterrupt: server.should_exit = True; clear_tasks() up to its
\* await: task.cancel() for the task of the service, the task of seed_cache and
\* every task of generate_tile.  run() is interrupted at one of its awaits, so
\* the other tasks stand at an await, are not started yet, or have ended
Interrupt ==
    /\ ctl \in {"Warming", "Seeding", "Draining"}
    /\ seed_pc \notin {"loop", "exit"}
    /\ lvl_pc # "loop"
    /\ ctl' = "Interrupted"
    /\ should_exit' = TRUE
    /\ stop_requested' = TRUE
    /\ server_state' = IF server_state = "serving" THEN "cancelling" ELSE server_state
    /\ seed_pc' = IF seed_pc \in {"created", "level"} THEN "cancelling" ELSE seed_pc
    /\ lvl_pc' = IF lvl_pc \in {"gather", "final_gather", "raised"}
                 THEN "cancelling" ELSE lvl_pc
    /\ UNCHANGED <<job, run, done_future, zi, x_range, y_range, morton_order, pos,
                   tasks, generated_tiles, store, hist, prev>>

\* CancelledError arrives in a task of generate_tile at its await
TileCancelled(i) ==
    /\ lvl_pc = "cancelling"
    /\ tasks[i].pc # "done"
    /\ Finish(i, "Cancelled")
    /\ UNCHANGED <<job, proc, seed, lvl_pc, x_range, y_range, morton_order, pos,
                   generated_tiles, store, requested, saved, prev>>

\* CancelledError arrives in the task of seed_cache
SeedCancelled ==
    /\ seed_pc = "cancelling"
    /\ seed_pc' = "cancelled"
    /\ UNCHANGED <<job, proc, zi, level, store, hist, prev>>

\* CancelledError arrives in server.serve()
ServerCancelled ==
    /\ server_state = "cancelling"
    /\ server_state' = "cancelled"
    /\ UNCHANGED <<job, run, ctl, should_exit, done_future, stop_requested,
                   seed, level, store, hist, prev>>

\* await asyncio.gather(*tasks, return_exceptions=True) of clear_tasks returns:
\* every cancelled task has ended; finally: loop.stop()
InterruptDone ==
    /\ ctl = "Interrupted"
    /\ server_state # "cancelling"
    /\ seed_pc # "cancelling"
    /\ AllDone(tasks)
    /\ ctl' = "Stopped"
    /\ UNCHANGED <<job, run, server_state, should_exit, done_future, stop_requested,
                   seed, level, store, hist, prev>>

LifeNext ==
    \/ Next
    \/ CacheFolderFail
    \/ DescriptorFail
    \/ MissingZoom
    \/ Interrupt
    \/ \E i \in 1..Len(tasks) : TileCancelled(i)
    \/ SeedCancelled
    \/ ServerCancelled
    \/ InterruptDone

LifeSpec == LifeInit /\ [][LifeNext]_vars

\* --------------------------------------------------------------- GridSpec
\* generate_z_order_grid on its own, called with any two ranges within
\* 0..MaxCoord, the empty range among them.

CoordRanges == {Range(lo, hi) : lo \in 0..MaxCoord, hi \in 0..MaxCoord} 

GridInit ==
    /\ overwrite = FALSE
    /\ request_count = 1
    /\ zoom_levels = <<0>>
    /\ layer_json = [z \in 0..MaxZoom |-> UnitRect]
    /\ run = 1
    /\ store = {}
    /\ prev = NoRun
    /\ ctl = "Starting"
    /\ server_state = "off"
    /\ should_exit = FALSE
    /\ done_future = 0
    /\ stop_requested = FALSE
    /\ seed_pc = "none"
    /\ zi = 1
    /\ lvl_pc = "call"
    /\ x_range \in CoordRanges
    /\ y_range \in CoordRanges
    /\ morton_order = <<>>
    /\ pos = 1
    /\ tasks = <<>>
    /\ generated_tiles = 0
    /\ requested = {}
    /\ saved = {}
    /\ log = {}

\* morton_order = generate_z_order_grid(x_range, y_range)
GridCall ==
    /\ lvl_pc = "call"
    /\ morton_order' = generate_z_order_grid(x_range, y_range)
    /\ lvl_pc' = "called"
    /\ UNCHANGED <<job, proc, seed, x_range, y_range, pos, tasks, generated_tiles,
                   store, hist, prev>>

GridNext == GridCall

GridSpec == GridInit /\ [][GridNext]_vars

\* ------------------------------------------------------------- properties

\* the tiles of the job: every coordinate of the range of every listed zoom level
JobTileSet ==
    UNION {{<<zoom_levels[i], x, y>> :
                x \in layer_json[zoom_levels[i]].startX..layer_json[zoom_levels[i]].endX,
                y \in layer_json[zoom_levels[i]].startY..layer_json[zoom_levels[i]].endY} :
           i \in 1..Len(zoom_levels)}

\* the tasks of generate_tile that are dispatched and not finished
InFlight == {i \in 1..Len(tasks) : tasks[i].pc # "done"}

Gathering == {"gather", "final_gather"}
SeedEnded == {"returned", "raised"}

\* C1: at no point are more than request_count tasks of generate_tile of a zoom
\* level dispatched and not yet finished.
C1_BatchBarrier == Cardinality(InFlight) <= request_count

\* C1 happens: a level of more tiles than request_count >= 2, with a full batch
\* whose requests are all out
C1_Witness ==
    /\ request_count >= 2
    /\ Len(morton_order) > request_count
    /\ lvl_pc = "gather"
    /\ Cardinality(InFlight) = request_count
    /\ \A i \in 1..Len(tasks) : tasks[i].pc = "inflight"

\* C2: once stop is signalled with a batch dispatched, the gather of that batch
\* is left only with every task of it finished, no task is dispatched and no zoom
\* level is entered any more, and the task of seed_cache ends with done_future
\* set exactly once.
C2_StopMidBatch ==
    [][/\ (stop_requested /\ lvl_pc \in Gathering /\ lvl_pc' \notin Gathering)
            => (AllDone(tasks) /\ lvl_pc' # "raised")
       /\ stop_requested => Len(tasks') <= Len(tasks)
       /\ (stop_requested /\ seed_pc = "loop") => seed_pc' # "level"
       /\ (stop_requested /\ seed_pc \notin SeedEnded /\ seed_pc' \in SeedEnded)
            => done_future' = 1]_vars

\* C3: done_future is set at most once, and a run of seed_cache that has ended
\* has set it exactly once.
C3_DoneOnce ==
    /\ done_future <= 1
    /\ seed_pc \in SeedEnded => done_future = 1

\* C4: in a run in which a tile was answered with a status other than 200, every
\* tile that ended Cached is in the store, and the task of seed_cache goes on to
\* the remaining batches and levels: it does not die.
C4_NonOkIsolated ==
    (\E l \in log : l.out = "FailedStatus")
        => /\ \A s \in saved : s.key \in store
           /\ seed_pc # "raised"
           /\ lvl_pc # "raised"

\* C5: a connection error of one request is terminal at its task: nothing
\* reaches generate_level or seed_cache.
C5_TransportLocal ==
    (\E l \in log : l.out = "Raised") => (lvl_pc # "raised" /\ seed_pc # "raised")

\* C6: after a first run without stop in which every tile was skipped or saved,
\* a second run with overwrite = false requests no tile the first run saved,
\* and ends with the store the first run left.
C6_Idempotent ==
    (run >= 2 /\ ~overwrite /\ prev.clean /\ ~stop_requested)
        => /\ requested \cap prev.cached = {}
           /\ seed_pc = "returned" => store = prev.store

C8_FailedRetried ==
    (run >= 2 /\ ~overwrite /\ ~stop_requested /\ seed_pc = "returned")
        => prev.failed \subseteq requested

\* C9: a tile <<z, x, y>> is saved under the key <<z, x, tmsYMax(z) - y>> and
\* under no other, and the store gains no other key.
C9_RowFlip ==
    /\ \A s \in saved :
          /\ s.key = <<s.tile[1], s.tile[2], TmsYMax(s.tile[1]) - s.tile[3]>>
          /\ s.key \in store
    /\ store \ prev.store \subseteq {s.key : s \in saved}
    /\ \A l \in log : l.out = "Cached" =>
          \E s \in saved : s.tile = l.tile

\* C9 happens: a tile is saved in a row other than the one requested
C9_Witness ==
    \E s \in saved : s.key[3] # s.tile[3] /\ s.key \in store

\* C10: generate_z_order_grid returns W * H pairs, every pair of the product
\* of the two ranges exactly once and no other pair.
C10_GridComplete ==
    lvl_pc = "called" =>
        /\ Len(morton_order) = Len(x_range) * Len(y_range)
        /\ \A i \in 1..Len(x_range), j \in 1..Len(y_range) :
              Cardinality({k \in 1..Len(morton_order) :
                              morton_order[k] = <<x_range[i], y_range[j]>>}) = 1
        /\ \A k \in 1..Len(morton_order) :
              \E i \in 1..Len(x_range), j \in 1..Len(y_range) :
                  morton_order[k] = <<x_range[i], y_range[j]>>

\* C10 happens: the grid of a rectangle that is wider than high, and not at 0
C10_Witness ==
    /\ lvl_pc = "called"
    /\ Len(x_range) = 3
    /\ Len(y_range) = 2
    /\ x_range[1] = 1
    /\ Len(morton_order) = 6

\* bit i of a natural number
Bit(n, i) == (n \div 2^i) % 2

\* C11: in the grid returned, A stands before B exactly if interleave(A) <
\* interleave(B); interleave puts bit i of x at position 2i and bit i of y at
\* position 2i + 1, so that distinct pairs have distinct codes; on 0..3 x 0..3
\* the grid starts (0,0),(1,0),(0,1),(1,1),(2,0),(3,0),(2,1),(3,1),(0,2).
C11_MortonOrder ==
    lvl_pc = "called" =>
        /\ \A j \in 1..Len(morton_order), k \in 1..Len(morton_order) :
              (j < k) <=> (interleave_bits(morton_order[j][1], morton_order[j][2])
                             < interleave_bits(morton_order[k][1], morton_order[k][2]))
        /\ \A k \in 1..Len(morton_order), i \in 0..MaxCoord :
              LET p == morton_order[k]
                  code == interleave_bits(p[1], p[2])
              IN /\ Bit(code, 2*i) = Bit(p[1], i)
                 /\ Bit(code, 2*i + 1) = Bit(p[2], i)
        /\ (x_range = Range(0, 3) /\ y_range = Range(0, 3)) =>
              SubSeq(morton_order, 1, 9) =
                  << <<0, 0>>, <<1, 0>>, <<0, 1>>, <<1, 1>>, <<2, 0>>, <<3, 0>>,
                     <<2, 1>>, <<3, 1>>, <<0, 2>> >>

\* C11 happens: the grid of 0..3 x 0..3, whose second point is (1, 0)
C11_Witness ==
    /\ lvl_pc = "called"
    /\ x_range = Range(0, 3)
    /\ y_range = Range(0, 3)
    /\ Len(morton_order) = 16
    /\ morton_order[2] = <<1, 0>>
    /\ morton_order[16] = <<3, 3>>

\* the steps the process takes by itself, without a signal from outside
ProgramStep ==
    \/ StartServer \/ StartSeeding \/ AwaitDone \/ ServerExit \/ Drain
    \/ SeedStart \/ LevelEnter \/ SeedFinish
    \/ Dispatch \/ GatherReturn \/ LoopExit \/ FinalGatherReturn \/ GatherRaise
    \/ TileStep
    \/ (\E i \in 1..Len(tasks) : TileCancelled(i))
    \/ SeedCancelled \/ ServerCancelled \/ InterruptDone

\* seed_cache has ended by a fatal error: an exception, or sys.exit
SeedFatal == {"fatal", "exit"}

\* C12: after a fatal error of seed_cache the process does not come to rest
\* before run() has stopped the service and reached Stopped: it is not left
\* polling in Seeding, and it has not ended with the service never stopped.
C12_FatalDrains ==
    (seed_pc \in SeedFatal /\ ~ENABLED ProgramStep)
        => (ctl = "Stopped" /\ server_state \in {"exited", "cancelled"})

\* C13: within a zoom level a task is dispatched only onto a batch none of
\* whose tasks has started, the tasks held are the ones dispatched since the
\* last batch boundary, and a batch is let go of only with every task of it
\* finished: batch N+1 neither is dispatched nor starts before batch N is over.
C13_BatchesSequential ==
    [][/\ Len(tasks') < Len(tasks) => \A i \in 1..Len(tasks) : tasks[i].pc = "done"
       /\ Len(tasks') > Len(tasks) =>
              /\ Len(tasks') = Len(tasks) + 1
              /\ lvl_pc = "loop"
              /\ \A i \in 1..Len(tasks) : tasks[i] = NewTask(tasks[i].x, tasks[i].y)
       /\ lvl_pc # "none" =>
              /\ (pos - 1 - Len(tasks)) % request_count = 0
              /\ Len(tasks) <= request_count
       /\ lvl_pc = "loop" => \A i \in 1..Len(tasks) : tasks[i].pc # "done"]_vars

\* C13 happens: the second batch of a level is in flight, the two tasks of the
\* first batch have finished
C13_Witness ==
    /\ request_count = 2
    /\ pos = 4
    /\ lvl_pc = "final_gather"
    /\ Len(tasks) = 1
    /\ tasks[1].pc = "inflight"
    /\ Cardinality({l \in log : l.tile[1] = zoom}) = 2

\* C14: seed_cache moves to the next entry of zoom_levels, one entry at a time,
\* only when every task of the level it leaves has finished, the last partial
\* batch included, and enters a level with no task left over.
C14_LevelsSequential ==
    [][/\ zi' # zi =>
              /\ zi' = zi + 1
              /\ \A i \in 1..Len(tasks) : tasks[i].pc = "done"
              /\ tasks' = <<>>
       /\ (seed_pc' = "level" /\ seed_pc # "level") =>
              /\ tasks = <<>>
              /\ lvl_pc = "none"
              /\ morton_order' = generate_z_order_grid(
                     Range(layer_json[zoom_levels[zi]].startX, layer_json[zoom_levels[zi]].endX),
                     Range(layer_json[zoom_levels[zi]].startY, layer_json[zoom_levels[zi]].endY))
       /\ Len(tasks') > Len(tasks) => (zi' = zi /\ seed_pc = "level")]_vars

\* C14 happens: the second level of the list is in flight after a first level
\* of another zoom that ended with a partial batch
C14_Witness ==
    /\ request_count = 2
    /\ Len(zoom_levels) = 2
    /\ zoom_levels[1] # zoom_levels[2]
    /\ RectTiles(layer_json[zoom_levels[1]]) = 1
    /\ zi = 2
    /\ lvl_pc \in Gathering
    /\ \E i \in 1..Len(tasks) : tasks[i].pc = "inflight"
    /\ \E l \in log : l.tile[1] = zoom_levels[1]

\* the lifecycle state run() is in: its except handler is the drain of an
\* interrupted run
Lifecycle(c) == IF c = "Interrupted" THEN "Draining" ELSE c

LifecycleOrder ==
    {<<"Starting", "Warming">>, <<"Warming", "Seeding">>, <<"Seeding", "Draining">>,
     <<"Draining", "Stopped">>}

Outstanding == {i \in 1..Len(tasks) : tasks[i].pc \in {"inflight", "read"}}

\* C16: when the interrupt handler of run() has told the service to stop, the
\* tasks of generate_tile have been cancelled and have ended: no request is
\* outstanding against the stopping service.
C16_CancelBeforeStop ==
    (ctl = "Interrupted" /\ should_exit) => Outstanding = {}

\* the tiles a task of generate_tile has been created for in this run, seen
\* where the next one is created: every tile of the levels before this one (a
\* level is left for the next only unstopped, so with all of it dispatched),
\* and the coordinates of this level up to pos
Dispatched ==
    UNION {{<<zoom_levels[i], x, y>> :
                x \in layer_json[zoom_levels[i]].startX..layer_json[zoom_levels[i]].endX,
                y \in layer_json[zoom_levels[i]].startY..layer_json[zoom_levels[i]].endY} :
           i \in 1..(zi - 1)}
    \cup {<<zoom, morton_order[p][1], morton_order[p][2]>> : p \in 1..(pos - 1)}

\* the task a step has created
Created == tasks'[Len(tasks')]

NoRepeat(zl) == \A i \in 1..Len(zl), j \in 1..Len(zl) : zl[i] = zl[j] => i = j

\* C17 as stated: for every job, a task is never created for a tile that a
\* task was created for before in the same run.
C17_KeysDisjoint ==
    [][Len(tasks') > Len(tasks) => <<zoom, Created.x, Created.y>> \notin Dispatched]_vars

\* C17, amended: for a zoom list that names no level twice, a task is never
\* created for a tile that had a task before in the run; and for every job the
\* tasks of one batch, the only ones that run at the same time, have pairwise
\* different tiles and save keys.
C17_KeysDisjointAmended ==
    [][/\ (NoRepeat(zoom_levels) /\ Len(tasks') > Len(tasks))
              => <<zoom, Created.x, Created.y>> \notin Dispatched
       /\ \A i \in 1..Len(tasks), j \in 1..Len(tasks) :
              (\/ <<tasks[i].x, tasks[i].y>> = <<tasks[j].x, tasks[j].y>>
               \/ SaveKey(tms_y_max, zoom, tasks[i].x, tasks[i].y)
                     = SaveKey(tms_y_max, zoom, tasks[j].x, tasks[j].y))
              => i = j]_vars

\* C17 happens: the second of two different levels has two tasks about to save
\* at the same time
C17_Witness ==
    /\ Len(zoom_levels) = 2
    /\ NoRepeat(zoom_levels)
    /\ zi = 2
    /\ Len(tasks) = 2
    /\ tasks[1].pc = "save"
    /\ tasks[2].pc = "save"
    /\ saved # {}

\* C18: the store changes only in the step of a task that stands behind a
\* fully read answer, by the one key of that task, and the task ends Cached; a
\* task comes to stand there only from reading, and to reading only from a
\* request out; a task that ends any other way leaves the store as it was.
C18_SaveOnlyAfterRead ==
    [][/\ store' # store =>
              \E i \in 1..Len(tasks) :
                  /\ tasks[i].pc = "save"
                  /\ tasks' = [tasks EXCEPT ![i].pc = "done", ![i].out = "Cached"]
                  /\ store' = store \cup {SaveKey(tms_y_max, zoom, tasks[i].x, tasks[i].y)}
       /\ Len(tasks') = Len(tasks) =>
              \A i \in 1..Len(tasks) :
                  /\ (tasks'[i].pc = "save" /\ tasks[i].pc # "save") => tasks[i].pc = "read"
                  /\ (tasks'[i].pc = "read" /\ tasks[i].pc # "read") => tasks[i].pc = "inflight"
                  /\ (tasks'[i].pc = "done" /\ tasks[i].pc # "done" /\ tasks'[i].out # "Cached")
                        => store' = store]_vars

\* C18 happens: a run has ended one task Cached and another on a status other
\* than 200, and the store holds the one tile
C18_Witness ==
    /\ \E l \in log : l.out = "Cached"
    /\ \E l \in log : l.out = "FailedStatus"
    /\ \E l \in log : l.out = "FailedError"
    /\ Cardinality(store) = 1
    /\ store = {s.key : s \in saved}

\* the coordinates of the level whose task has finished
FinishedOfLevel == (pos - 1) - Cardinality(InFlight)

\* C19: when generate_level reports a count (generated_tiles has come to a
\* multiple of the report interval, or to the number of tiles of the level),
\* the count is the number of coordinates of the level whose task has finished.
C19_ReportCount ==
    [][(/\ generated_tiles' = generated_tiles + 1
        /\ \/ generated_tiles' % ReportEvery = 0
           \/ generated_tiles' = Len(x_range) * Len(y_range))
          => generated_tiles' = FinishedOfLevel']_vars

\* C20: where done_future is set, seed_cache has returned, no task of
\* generate_tile is left, and every tile of an unstopped job has its outcome;
\* so run() sets should_exit of its own accord only with no task unfinished.
C20_DoneMeansIdle ==
    /\ done_future >= 1 =>
          /\ InFlight = {}
          /\ tasks = <<>>
          /\ seed_pc = "returned"
          /\ ~stop_requested => \A t \in JobTileSet : \E l \in log : l.tile = t
    /\ (should_exit /\ ~stop_requested) => (done_future >= 1 /\ InFlight = {})

\* C20 happens: run() has told the service to stop after an unstopped run of
\* three tiles
C20_Witness ==
    /\ done_future = 1
    /\ ctl = "Draining"
    /\ should_exit
    /\ ~stop_requested
    /\ Cardinality(JobTileSet) = 3
    /\ Cardinality(saved) >= 2

====
